---- MODULE Spec2Model ----
(***************************************************************************)
(* Model of the text statistics tool test55.py: the line sources, the      *)
(* tokenizer, the aggregating fold text_stats, the reporter print_stats    *)
(* and the entry point main.                                               *)
(*                                                                         *)
(* A Python str is modelled as a sequence of one-character strings, so     *)
(* that split, strip and lower are computed character by character.        *)
(***************************************************************************)
EXTENDS Integers, Sequences, FiniteSets

VARIABLES
    argv,        \* the positional arguments given to main (zero or one path)
    isatty,      \* sys.stdin.isatty()
    content,     \* the lines the selected source holds (file or stdin)
    failAt,      \* <<k>>: the read after k yielded lines raises; <<>>: none does
    pc,          \* position of the run
    lines,       \* which generator main selected: "none", "file", "stdin"
    fileState,   \* "unopened", "open", "closed": the handle of open(path)
    stdinState,  \* "open", "closed": sys.stdin
    pos,         \* number of lines the generator has yielded
    line,        \* the loop variable of text_stats / the argument of tokenize
    tokens,      \* the result of the last tokenize call
    line_count,
    word_count,
    char_count,
    counter,     \* Counter: sequence of [word, n], in insertion order
    out,         \* what was printed to standard output, line by line
    exit         \* <<status>> once the process has ended, <<>> while it runs

vars == <<argv, isatty, content, failAt, pc, lines, fileState, stdinState, pos,
          line, tokens, line_count, word_count, char_count, counter, out, exit>>

----------------------------------------------------------------------------
(* Bounds of the model *)

\* longest line of the exhaustive tokenizer inputs
MaxLen == 4
\* most lines a source holds
MaxLines == 3

----------------------------------------------------------------------------
(* Characters *)

Upper == <<"A","B","C","D","E","F","G","H","I","J","K","L","M",
           "N","O","P","Q","R","S","T","U","V","W","X","Y","Z">>
LowerCase == <<"a","b","c","d","e","f","g","h","i","j","k","l","m",
               "n","o","p","q","r","s","t","u","v","w","x","y","z">>

\* the characters str.split() treats as separators
Whitespace == {" ", "\t", "\n", "\r", "\f"}

IsSpace(c) == c \in Whitespace

\* the argument of both strip calls in tokenize
StripChars == {".", ",", "!", "?", ":", ";", "\"", "'",
               "(", ")", "[", "]", "{", "}", "<", ">"}

\* str.lower() on one character
LowerChar(c) ==
    IF \E i \in 1..Len(Upper) : Upper[i] = c
    THEN LowerCase[CHOOSE i \in 1..Len(Upper) : Upper[i] = c]
    ELSE c

\* str.lower()
lower(s) == [i \in 1..Len(s) |-> LowerChar(s[i])]

----------------------------------------------------------------------------
(* str.split() with no argument: skip a run of whitespace, take the run   *)
(* of non-whitespace that follows, repeat.                                 *)

RECURSIVE WordEnd(_, _)
WordEnd(s, j) ==
    IF j > Len(s) \/ IsSpace(s[j]) THEN j ELSE WordEnd(s, j + 1)

RECURSIVE SplitFrom(_, _)
SplitFrom(s, i) ==
    IF i > Len(s) THEN <<>>
    ELSE IF IsSpace(s[i]) THEN SplitFrom(s, i + 1)
    ELSE <<SubSeq(s, i, WordEnd(s, i) - 1)>> \o SplitFrom(s, WordEnd(s, i))

split(s) == SplitFrom(s, 1)

(* str.strip(chars): advance past leading members of chars, retreat past  *)
(* trailing members of chars.                                              *)

RECURSIVE LStripIndex(_, _)
LStripIndex(s, i) ==
    IF i <= Len(s) /\ s[i] \in StripChars THEN LStripIndex(s, i + 1) ELSE i

RECURSIVE RStripIndex(_, _, _)
RStripIndex(s, i, j) ==
    IF j >= i /\ s[j] \in StripChars THEN RStripIndex(s, i, j - 1) ELSE j

\* a plausible slip: one character removed from each end, not the whole run
StripOnce(s) ==
    LET i == IF Len(s) >= 1 /\ s[1] \in StripChars THEN 2 ELSE 1
        j == IF Len(s) >= i /\ s[Len(s)] \in StripChars THEN Len(s) - 1 ELSE Len(s)
    IN SubSeq(s, i, j)

strip(s) ==
    LET i == LStripIndex(s, 1)
        j == RStripIndex(s, i, Len(s))
    IN SubSeq(s, i, j)

RECURSIVE TokensOf(_)
TokensOf(pieces) ==
    IF pieces = <<>> THEN <<>>
    ELSE IF strip(Head(pieces)) # <<>>
         THEN <<lower(strip(Head(pieces)))>> \o TokensOf(Tail(pieces))
         ELSE TokensOf(Tail(pieces))

\* a plausible slip: the comprehension without its if clause
tokenizeNoFilter(l) ==
    [k \in 1..Len(split(l)) |-> lower(strip(split(l)[k]))]

tokenize(l) == TokensOf(split(l))

----------------------------------------------------------------------------
(* Input texts *)

Alphabet == {" ", "\n", ",", "!", "-", "A", "a"}

RECURSIVE StringsUpTo(_)
StringsUpTo(n) ==
    IF n = 0 THEN {<<>>}
    ELSE LET shorter == StringsUpTo(n - 1)
         IN shorter \cup {Append(s, c) : s \in {t \in shorter : Len(t) = n - 1},
                                          c \in Alphabet}

NL == <<"\n">>
SP == <<" ">>
the == <<"t","h","e">>
cat == <<"c","a","t">>
sat == <<"s","a","t">>
on == <<"o","n">>
mat == <<"m","a","t">>
ran == <<"r","a","n">>
hello == <<"h","e","l","l","o">>
world == <<"w","o","r","l","d">>
dashes == <<"-","-","-">>

TheCatSat == the \o SP \o cat \o SP \o sat \o SP \o on \o SP \o the \o SP \o mat \o NL
TheCatRan == the \o SP \o cat \o SP \o ran \o NL
HelloWorld == <<"H","e","l","l","o",",">> \o SP \o world \o <<"!","!">>
DashesBangs == dashes \o <<"!","!","!">>
Blank == NL
RanOnMat == <<"(","R","a","n",")">> \o SP \o SP \o on \o <<"\t">> \o <<"M","A","T",".">>
            \o SP \o <<"?","!">> \o SP \o on \o NL

ExampleLines == {TheCatSat, TheCatRan, HelloWorld, DashesBangs, dashes, Blank, RanOnMat}


\* what a text-mode source can yield: every line but the last ends with its
\* terminator, no line is empty, and a terminator occurs only at a line's end
Corpus == {TheCatSat, TheCatRan, HelloWorld, Blank, RanOnMat}

Terminated(l) == l # <<>> /\ l[Len(l)] = "\n"

RECURSIVE TextsUpTo(_)
TextsUpTo(n) ==
    IF n = 0 THEN {<<>>}
    ELSE LET shorter == TextsUpTo(n - 1)
         IN shorter \cup {Append(t, l) :
                            t \in {u \in shorter : /\ Len(u) = n - 1
                                                   /\ \A i \in 1..Len(u) : Terminated(u[i])},
                            l \in Corpus}

\* the file system: the one path that can be opened
FileExists(path) == path = "in.txt"

Argvs == {<<>>, <<"">>, <<"in.txt">>, <<"missing.txt">>}

----------------------------------------------------------------------------
(* Counter *)

HasWord(c, w) == \E i \in 1..Len(c) : c[i].word = w

IndexOf(c, w) == CHOOSE i \in 1..Len(c) : c[i].word = w

\* a plausible slip: self[elem] = 1 instead of self.get(elem, 0) + 1
CounterAddOnce(c, w) ==
    IF HasWord(c, w) THEN c ELSE Append(c, [word |-> w, n |-> 1])

\* self[elem] = self.get(elem, 0) + 1; a new key goes last (dict order)
CounterAdd(c, w) ==
    IF HasWord(c, w)
    THEN [c EXCEPT ![IndexOf(c, w)].n = @ + 1]
    ELSE Append(c, [word |-> w, n |-> 1])

\* Counter.update(iterable): one CounterAdd per element, in order
RECURSIVE CounterUpdate(_, _)
CounterUpdate(c, ts) ==
    IF ts = <<>> THEN c ELSE CounterUpdate(CounterAdd(c, Head(ts)), Tail(ts))

RemoveAt(c, i) == SubSeq(c, 1, i - 1) \o SubSeq(c, i + 1, Len(c))

MaxN(c) == CHOOSE m \in {c[i].n : i \in 1..Len(c)} : \A i \in 1..Len(c) : c[i].n <= m

\* a plausible slip: among equal counts the entry inserted last comes first
RECURSIVE most_common_last(_, _)
most_common_last(c, k) ==
    IF k = 0 \/ c = <<>> THEN <<>>
    ELSE LET i == CHOOSE j \in 1..Len(c) :
                      /\ c[j].n = MaxN(c)
                      /\ \A h \in (j + 1)..Len(c) : c[h].n # MaxN(c)
         IN <<c[i]>> \o most_common_last(RemoveAt(c, i), k - 1)

\* Counter.most_common(k) = sorted(items, key=count, reverse=True)[:k]; the
\* sort is stable, so among equal counts the entry inserted first comes first
RECURSIVE most_common(_, _)
most_common(c, k) ==
    IF k = 0 \/ c = <<>> THEN <<>>
    ELSE LET i == CHOOSE j \in 1..Len(c) :
                      /\ c[j].n = MaxN(c)
                      /\ \A h \in 1..(j - 1) : c[h].n # MaxN(c)
         IN <<c[i]>> \o most_common(RemoveAt(c, i), k - 1)

----------------------------------------------------------------------------
(* text_stats and print_stats *)

\* a plausible slip: the words counted before the punctuation filter
LoopBodyCountPieces(acc, l) ==
    [line_count |-> acc.line_count + 1,
     char_count |-> acc.char_count + Len(l),
     word_count |-> acc.word_count + Len(split(l)),
     counter    |-> CounterUpdate(acc.counter, tokenize(l))]

\* one iteration of the for loop of text_stats
LoopBody(acc, l) ==
    [line_count |-> acc.line_count + 1,
     char_count |-> acc.char_count + Len(l),
     word_count |-> acc.word_count + Len(tokenize(l)),
     counter    |-> CounterUpdate(acc.counter, tokenize(l))]

TopN == 5

OutLine(kind, word, n) == [kind |-> kind, word |-> word, n |-> n]

Prompt == OutLine("Reading from stdin.", <<>>, 0)

\* a plausible slip: the header printed only when there is a ranking
print_stats_no_header(lc, wc, cc, c) ==
    <<OutLine("Lines", <<>>, lc), OutLine("Words", <<>>, wc),
      OutLine("Characters", <<>>, cc)>>
    \o (IF c = <<>> THEN <<>> ELSE <<OutLine("Top 5 words:", <<>>, 0)>>)
    \o [i \in 1..Len(most_common(c, TopN)) |->
          OutLine("entry", most_common(c, TopN)[i].word, most_common(c, TopN)[i].n)]

\* the lines print_stats prints
print_stats(lc, wc, cc, c) ==
    <<OutLine("Lines", <<>>, lc), OutLine("Words", <<>>, wc),
      OutLine("Characters", <<>>, cc), OutLine("Top 5 words:", <<>>, 0)>>
    \o [i \in 1..Len(most_common(c, TopN)) |->
          OutLine("entry", most_common(c, TopN)[i].word, most_common(c, TopN)[i].n)]

----------------------------------------------------------------------------
(* main *)

\* parse_args: args.path is not None
PathGiven == Len(argv) = 1

\* `if args.path:` is false for None and for the empty string
UsesFile == Len(argv) = 1 /\ argv[1] # ""

Idle ==
    /\ lines = "none" /\ fileState = "unopened" /\ stdinState = "open"
    /\ pos = 0 /\ tokens = <<>>
    /\ line_count = 0 /\ word_count = 0 /\ char_count = 0
    /\ counter = <<>> /\ out = <<>> /\ exit = <<>>

Init ==
    /\ argv \in Argvs
    /\ isatty \in BOOLEAN
    /\ content \in TextsUpTo(MaxLines)
    /\ failAt \in {<<>>} \cup {<<k>> : k \in 0..Len(content)}
    /\ pc = "main"
    /\ line = <<>>
    /\ Idle

\* main, lines 71-80: parse the arguments, choose the source, print the prompt
main_select ==
    /\ pc = "main"
    /\ pc' = "text_stats"
    /\ lines' = IF UsesFile THEN "file" ELSE "stdin"
    /\ out' = IF ~UsesFile /\ isatty THEN Append(out, Prompt) ELSE out
    /\ UNCHANGED <<argv, isatty, content, failAt, fileState, stdinState, pos, line,
                   tokens, line_count, word_count, char_count, counter, exit>>

\* an exception leaves the generator, text_stats and main: the process ends
\* with a traceback and status 1
Raise ==
    /\ pc' = "raised"
    /\ exit' = <<1>>
    /\ UNCHANGED <<argv, isatty, content, failAt, lines, stdinState, pos, line, tokens,
                   line_count, word_count, char_count, counter, out>>

\* read_lines_from_file, line 19: open succeeds on the first next()
file_open ==
    /\ pc = "text_stats" /\ lines = "file" /\ fileState = "unopened"
    /\ FileExists(argv[1])
    /\ fileState' = "open"
    /\ UNCHANGED <<argv, isatty, content, failAt, pc, lines, stdinState, pos, line,
                   tokens, line_count, word_count, char_count, counter, out, exit>>

\* read_lines_from_file, line 19: open raises
file_open_error ==
    /\ pc = "text_stats" /\ lines = "file" /\ fileState = "unopened"
    /\ ~FileExists(argv[1])
    /\ UNCHANGED fileState
    /\ Raise

Yield ==
    /\ pos < Len(content)
    /\ failAt # <<pos>>
    /\ pos' = pos + 1
    /\ line' = content[pos + 1]
    /\ tokens' = tokenize(content[pos + 1])
    /\ LET acc == LoopBody([line_count |-> line_count, char_count |-> char_count,
                            word_count |-> word_count, counter |-> counter],
                           content[pos + 1])
       IN /\ line_count' = acc.line_count
          /\ char_count' = acc.char_count
          /\ word_count' = acc.word_count
          /\ counter' = acc.counter
    /\ UNCHANGED <<argv, isatty, content, failAt, pc, lines, fileState, stdinState,
                   out, exit>>

\* the file yields a line and text_stats runs one iteration on it
file_line ==
    /\ pc = "text_stats" /\ lines = "file" /\ fileState = "open"
    /\ Yield

\* the stdin generator yields a line and text_stats runs one iteration on it
stdin_line ==
    /\ pc = "text_stats" /\ lines = "stdin"
    /\ Yield

\* a plausible slip: the file read without the with statement around it
file_read_error_leak ==
    /\ pc = "text_stats" /\ lines = "file" /\ fileState = "open"
    /\ failAt = <<pos>>
    /\ UNCHANGED fileState
    /\ Raise

\* a read of the file raises: the with statement closes the file on the way out
file_read_error ==
    /\ pc = "text_stats" /\ lines = "file" /\ fileState = "open"
    /\ failAt = <<pos>>
    /\ fileState' = "closed"
    /\ Raise

\* a read of sys.stdin raises: nothing closes sys.stdin
stdin_read_error ==
    /\ pc = "text_stats" /\ lines = "stdin"
    /\ failAt = <<pos>>
    /\ UNCHANGED fileState
    /\ Raise

Return ==
    /\ pos = Len(content)
    /\ failAt # <<pos>>
    /\ pc' = "print_stats"
    /\ UNCHANGED <<argv, isatty, content, failAt, lines, stdinState, pos, line, tokens,
                   line_count, word_count, char_count, counter, out, exit>>

\* the file is exhausted: the with statement closes it, text_stats returns
file_eof ==
    /\ pc = "text_stats" /\ lines = "file" /\ fileState = "open"
    /\ fileState' = "closed"
    /\ Return

\* sys.stdin is exhausted: text_stats returns, sys.stdin stays as it is
stdin_eof ==
    /\ pc = "text_stats" /\ lines = "stdin"
    /\ UNCHANGED fileState
    /\ Return

\* a plausible slip: the ranking taken from an order that is not the input's
main_report_unordered ==
    /\ pc = "print_stats"
    /\ pc' = "done"
    /\ \E i \in 1..(Len(counter) + 1) :
          out' = out \o print_stats(line_count, word_count, char_count,
                                    SubSeq(counter, i, Len(counter))
                                    \o SubSeq(counter, 1, i - 1))
    /\ exit' = <<0>>
    /\ UNCHANGED <<argv, isatty, content, failAt, lines, fileState, stdinState, pos,
                   line, tokens, line_count, word_count, char_count, counter>>

\* a plausible slip: the failure swallowed and the partial totals reported
main_report_partial ==
    /\ pc \in {"print_stats", "raised"}
    /\ pc' = "done"
    /\ out' = out \o print_stats(line_count, word_count, char_count, counter)
    /\ exit' = IF pc = "raised" THEN exit ELSE <<0>>
    /\ UNCHANGED <<argv, isatty, content, failAt, lines, fileState, stdinState, pos,
                   line, tokens, line_count, word_count, char_count, counter>>

\* main, lines 83-84: print the statistics and return 0
main_report ==
    /\ pc = "print_stats"
    /\ pc' = "done"
    /\ out' = out \o print_stats(line_count, word_count, char_count, counter)
    /\ exit' = <<0>>
    /\ UNCHANGED <<argv, isatty, content, failAt, lines, fileState, stdinState, pos,
                   line, tokens, line_count, word_count, char_count, counter>>

Next ==
    \/ main_select
    \/ file_open
    \/ file_open_error
    \/ file_line
    \/ stdin_line
    \/ file_read_error
    \/ stdin_read_error
    \/ file_eof
    \/ stdin_eof
    \/ main_report

Spec == Init /\ [][Next]_vars

----------------------------------------------------------------------------
(* The tokenizer on its own: every line over Alphabet up to MaxLen, and the *)
(* example lines.                                                           *)

InitTok ==
    /\ argv = <<>>
    /\ isatty = FALSE
    /\ content = <<>>
    /\ failAt = <<>>
    /\ pc = "tokenize"
    /\ line \in StringsUpTo(MaxLen) \cup ExampleLines
    /\ Idle

tokenize_call ==
    /\ pc = "tokenize"
    /\ pc' = "tokenized"
    /\ tokens' = tokenize(line)
    /\ UNCHANGED <<argv, isatty, content, failAt, lines, fileState, stdinState, pos,
                   line, line_count, word_count, char_count, counter, out, exit>>

NextTok == tokenize_call

SpecTok == InitTok /\ [][NextTok]_vars


----------------------------------------------------------------------------
(* Reference notions the properties are stated with *)

MinOf(S) == CHOOSE x \in S : \A y \in S : x <= y
MaxOf(S) == CHOOSE x \in S : \A y \in S : y <= x

\* the tokens of a text, line after line
RECURSIVE AllTokens(_)
AllTokens(text) ==
    IF text = <<>> THEN <<>> ELSE tokenize(Head(text)) \o AllTokens(Tail(text))

RECURSIVE TotalLen(_)
TotalLen(text) ==
    IF text = <<>> THEN 0 ELSE Len(Head(text)) + TotalLen(Tail(text))

RECURSIVE SumN(_)
SumN(c) == IF c = <<>> THEN 0 ELSE Head(c).n + SumN(Tail(c))

Distinct(ts) == {ts[i] : i \in 1..Len(ts)}
Occ(w, ts) == Cardinality({i \in 1..Len(ts) : ts[i] = w})
FirstOcc(w, ts) == MinOf({i \in 1..Len(ts) : ts[i] = w})

CountOf(c, w) == IF HasWord(c, w) THEN c[IndexOf(c, w)].n ELSE 0

\* the reference tokenizer, by positions: a piece is a maximal run without
\* whitespace; its token runs from its first to its last character outside
\* StripChars, lowercased; a piece with no such character gives no token
PieceStarts(l) ==
    {i \in 1..Len(l) : ~IsSpace(l[i]) /\ (i = 1 \/ IsSpace(l[i - 1]))}
PieceEnd(l, i) ==
    MaxOf({j \in i..Len(l) : \A k \in i..j : ~IsSpace(l[k])})
Core(l, i) == {k \in i..PieceEnd(l, i) : l[k] \notin StripChars}
Kept(l) == {i \in PieceStarts(l) : Core(l, i) # {}}
RefToken(l, i) ==
    [k \in 1..(MaxOf(Core(l, i)) - MinOf(Core(l, i)) + 1) |->
        LowerChar(l[MinOf(Core(l, i)) + k - 1])]
RefTokens(l) ==
    [n \in 1..Cardinality(Kept(l)) |->
        RefToken(l, CHOOSE i \in Kept(l) : Cardinality({j \in Kept(l) : j <= i}) = n)]

IsStat(o) == o.kind \in {"Lines", "Words", "Characters", "Top 5 words:", "entry"}
IsEntry(o) == o.kind = "entry"
IsPrompt(o) == o = Prompt
Entries == SelectSeq(out, IsEntry)
Stats == SelectSeq(out, IsStat)
PromptCount == Len(SelectSeq(out, IsPrompt))

\* the selected source raises: the path cannot be opened, or a read fails
SourceFails == (UsesFile /\ ~FileExists(argv[1])) \/ failAt # <<>>

\* the ranking as a function of the token stream alone: u precedes w when it
\* occurs more often, or as often and first occurs earlier
Precedes(u, w, ts) ==
    \/ Occ(u, ts) > Occ(w, ts)
    \/ Occ(u, ts) = Occ(w, ts) /\ FirstOcc(u, ts) < FirstOcc(w, ts)
RankOf(w, ts) == 1 + Cardinality({u \in Distinct(ts) : Precedes(u, w, ts)})
RefRanking(ts) ==
    [k \in 1..(IF Cardinality(Distinct(ts)) < TopN THEN Cardinality(Distinct(ts)) ELSE TopN) |->
        LET w == CHOOSE v \in Distinct(ts) : RankOf(v, ts) = k
        IN OutLine("entry", w, Occ(w, ts))]

ExpectedOut ==
    (IF ~UsesFile /\ isatty THEN <<Prompt>> ELSE <<>>)
    \o (IF SourceFails THEN <<>>
        ELSE <<OutLine("Lines", <<>>, Len(content)),
               OutLine("Words", <<>>, Len(AllTokens(content))),
               OutLine("Characters", <<>>, TotalLen(content)),
               OutLine("Top 5 words:", <<>>, 0)>>
             \o RefRanking(AllTokens(content)))

ExpectedExit == IF SourceFails THEN <<1>> ELSE <<0>>

----------------------------------------------------------------------------
(* Properties *)

\* C1: at every iteration boundary of text_stats, and at its return, word_count
\* equals the sum of the values of the frequency mapping.
WordCountIsSum == word_count = SumN(counter)

WordCountIsSumWitness ==
    /\ pc = "text_stats" /\ pos >= 1 /\ pos < Len(content)
    /\ word_count >= 2
    /\ \E i \in 1..Len(counter) : counter[i].n >= 2

\* C2 as stated: a line of punctuation only, "---!!!" or the single piece "---",
\* tokenizes to the empty sequence.
PunctuationOnlyYieldsNothing ==
    (pc = "tokenized" /\ line \in {DashesBangs, dashes}) => tokens = <<>>

\* C2 as amended: a line made only of characters of the strip set (and
\* whitespace), e.g. "!!!", tokenizes to the empty sequence; "-" is not in the
\* set, so "---!!!" and "---" both tokenize to ["---"].
StripCharsOnlyYieldsNothing ==
    pc = "tokenized" =>
        /\ (\A i \in 1..Len(line) : line[i] \in StripChars \cup Whitespace)
              => tokens = <<>>
        /\ line \in {DashesBangs, dashes} => tokens = <<dashes>>

StripCharsOnlyWitness ==
    pc = "tokenized" /\ line = <<"!", "!", "!">> /\ tokens = <<>>

\* C3: tokenize returns the reference result (pieces between whitespace runs,
\* maximal leading and trailing runs of the strip set removed, empty pieces
\* dropped, lowercased, in order); so every token is non-empty, has no
\* whitespace and neither starts nor ends with a character of the set; and
\* "Hello, world!!" gives ["hello", "world"].
TokenizeIsReference ==
    pc = "tokenized" =>
        /\ tokens = RefTokens(line)
        /\ \A k \in 1..Len(tokens) :
              /\ tokens[k] # <<>>
              /\ \A i \in 1..Len(tokens[k]) : ~IsSpace(tokens[k][i])
              /\ tokens[k][1] \notin StripChars
              /\ tokens[k][Len(tokens[k])] \notin StripChars
        /\ line = HelloWorld => tokens = <<hello, world>>

TokenizeIsReferenceWitness ==
    pc = "tokenized" /\ line = HelloWorld /\ tokens = <<hello, world>>

RankingIsTopFive ==
    pc = "done" =>
        LET ts == AllTokens(content)
            e == Entries
            emitted == {e[i].word : i \in 1..Len(e)}
        IN /\ Len(e) = (IF Cardinality(Distinct(ts)) < 5
                        THEN Cardinality(Distinct(ts)) ELSE 5)
           /\ \A i \in 1..Len(e) : e[i].word \in Distinct(ts) /\ e[i].n = Occ(e[i].word, ts)
           /\ \A i, j \in 1..Len(e) :
                 i < j => /\ e[i].n >= e[j].n
                          /\ e[i].n = e[j].n
                                => FirstOcc(e[i].word, ts) < FirstOcc(e[j].word, ts)
           /\ \A w \in Distinct(ts) \ emitted : \A i \in 1..Len(e) :
                 /\ Occ(w, ts) <= e[i].n
                 /\ Occ(w, ts) = e[i].n => FirstOcc(e[i].word, ts) < FirstOcc(w, ts)

RankingIsTopFiveWitness ==
    /\ pc = "done" /\ Len(Entries) = 5
    /\ \E w \in Distinct(AllTokens(content)) :
          /\ \A i \in 1..5 : Entries[i].word # w
          /\ Occ(w, AllTokens(content)) = Entries[5].n
    /\ \E i \in 1..4 :
          /\ Entries[i].n = Entries[i + 1].n
          /\ \E u \in 1..5 : Entries[u].n > Entries[i].n

\* C6 as stated, on its example: "the cat sat on the mat\nthe cat ran\n" gives
\* line count 2, word count 8, "the" -> 3, "cat" -> 2.
ExampleHasEightWords ==
    (pc = "print_stats" /\ content = <<TheCatSat, TheCatRan>>) =>
        /\ line_count = 2
        /\ word_count = 8
        /\ CountOf(counter, the) = 3
        /\ CountOf(counter, cat) = 2

\* C6 as amended: after each iteration text_stats holds the totals of the lines
\* yielded so far, and it returns line count = number of lines, character
\* count = sum of the full line lengths, word count = number of tokens, and a
\* mapping giving each token its number of occurrences; the example gives
\* line count 2, word count 9, "the" -> 3, "cat" -> 2.
TextStatsTotals ==
    LET seen == SubSeq(content, 1, pos)
        ts == AllTokens(seen)
    IN /\ pc \in {"print_stats", "done"} => pos = Len(content)
       /\ pc # "tokenize" /\ pc # "tokenized" =>
            /\ line_count = Len(seen)
            /\ char_count = TotalLen(seen)
            /\ word_count = Len(ts)
            /\ {counter[i].word : i \in 1..Len(counter)} = Distinct(ts)
            /\ \A i \in 1..Len(counter) : counter[i].n = Occ(counter[i].word, ts)
            /\ \A i, j \in 1..Len(counter) : i # j => counter[i].word # counter[j].word
       /\ (pc = "print_stats" /\ content = <<TheCatSat, TheCatRan>>) =>
            /\ line_count = 2
            /\ word_count = 9
            /\ char_count = 35
            /\ CountOf(counter, the) = 3
            /\ CountOf(counter, cat) = 2

TextStatsTotalsWitness ==
    /\ pc = "print_stats" /\ content = <<TheCatSat, TheCatRan>>
    /\ line_count = 2 /\ word_count = 9 /\ CountOf(counter, the) = 3

\* C7: a source that yields no line is no error: main prints Lines: 0,
\* Words: 0, Characters: 0 and the header, in that order, with no ranking entry
\* after it, and returns 0.
EmptyInputReport ==
    (content = <<>> /\ ~SourceFails) =>
        /\ pc # "raised"
        /\ pc = "done" =>
             /\ exit = <<0>>
             /\ Stats = <<OutLine("Lines", <<>>, 0), OutLine("Words", <<>>, 0),
                          OutLine("Characters", <<>>, 0),
                          OutLine("Top 5 words:", <<>>, 0)>>
             /\ Len(out) = 4 + PromptCount

EmptyInputReportWitness ==
    pc = "done" /\ content = <<>> /\ exit = <<0>> /\ Len(Stats) = 4

\* C8: the prompt is printed exactly once, before any line is read and before
\* any statistics line, if and only if no path was given and stdin is a
\* terminal; with a path given, or with stdin not a terminal, it is never printed.
PromptIffNoPathAndTty ==
    /\ PromptCount = (IF pc # "main" /\ ~PathGiven /\ isatty THEN 1 ELSE 0)
    /\ PromptCount = 1 => out[1] = Prompt
    /\ (pos > 0 /\ ~PathGiven /\ isatty) => PromptCount = 1

\* C9: the output and the exit status are a function of the input alone
\* (argument, line sequence, failure point, terminal status of stdin),
\* the order of equal-count words in the ranking included.
OutputIsFunctionOfInput ==
    pc \in {"done", "raised"} => (out = ExpectedOut /\ exit = ExpectedExit)

OutputIsFunctionOfInputWitness ==
    /\ pc = "done" /\ out = ExpectedOut /\ Len(Entries) = 5
    /\ \E i \in 1..4 : Entries[i].n = Entries[i + 1].n

\* C10 as stated: no run ends with its input resource still open, the file and
\* the standard input stream alike.
ResourceClosedAtExit ==
    pc \in {"done", "raised"} =>
        /\ fileState # "open"
        /\ lines = "stdin" => stdinState = "closed"

\* C10 as amended: the file is opened before any line is read from it and is
\* closed on every exit path, exhaustion and read error alike; the standard
\* input stream is not closed by the program.
FileClosedAtExit ==
    /\ (lines = "file" /\ pos > 0) => fileState # "unopened"
    /\ pc \in {"print_stats", "done", "raised"} => fileState # "open"
    /\ lines # "file" => fileState = "unopened"
    /\ stdinState = "open"

FileClosedAtExitWitness ==
    pc = "raised" /\ lines = "file" /\ pos >= 1 /\ fileState = "closed"

====
